---- MODULE Spec2Model ----
(***************************************************************************)
(* Model of the ATCF deck parser of atcf/atcf.py: ADeck / ADeckEntry /     *)
(* ModelForecast and BDeck / BDeckEntry / Storm, and of the text parser of *)
(* atcf/storm.py: Storm / BestTrackObservation / ModelForecast.            *)
(*                                                                         *)
(* A RawLine is modelled as the sequence of its comma-separated, trimmed   *)
(* fields (the result of [f.strip() for f in line.split(',')]); Python's   *)
(* 0-based fields[i] is Field(fields, i).  Text-to-value conversions       *)
(* (int, float, strptime) are tables over the field texts that occur in    *)
(* the inputs; a text outside a table makes the conversion raise.          *)
(* Times are hours since 2020-01-01 00Z; latitudes and longitudes are      *)
(* kept in tenths of a degree.  A Python dict is a sequence of             *)
(* <<key, value>> pairs in insertion order.  An object whose attribute     *)
(* was never set is a record without that field.                           *)
(*                                                                         *)
(* The classes of atcf/storm.py that have the names of classes of atcf.py  *)
(* are prefixed: storm_Storm, storm_ModelForecast, storm_basinletters.     *)
(* The aggregates a program keeps are the elements of `objects`; two       *)
(* elements are two objects, whatever their attributes.                    *)
(***************************************************************************)
EXTENDS Integers, Sequences, FiniteSets, TLC

VARIABLES lines, pc, adeck, bdeck, request, forecast, storm, entry, objects

vars == <<lines, pc, adeck, bdeck, request, forecast, storm, entry, objects>>

\* Largest number of lines of an input file (or of a group given to a decoder).
MaxLines == 3

\* np.nan, the missing marker (an integer no field text converts to).
nan == -1000000

-----------------------------------------------------------------------------
(* Conversions of field texts *)

\* int(text) for the texts of the inputs; other texts raise ValueError.
IntLiterals ==
  ("0" :> 0) @@ ("00" :> 0) @@ ("1" :> 1) @@ ("01" :> 1) @@ ("02" :> 2)
  @@ ("6" :> 6) @@ ("06" :> 6) @@ ("12" :> 12)
  @@ ("34" :> 34) @@ ("50" :> 50) @@ ("64" :> 64) @@ ("100" :> 100)
  @@ ("-99" :> -99) @@ ("-999" :> -999) @@ ("-5" :> -5)
  @@ ("5" :> 5) @@ ("10" :> 10) @@ ("15" :> 15) @@ ("20" :> 20) @@ ("25" :> 25)
  @@ ("30" :> 30) @@ ("35" :> 35) @@ ("40" :> 40) @@ ("45" :> 45)
  @@ ("60" :> 60) @@ ("70" :> 70) @@ ("80" :> 80) @@ ("90" :> 90)
  @@ ("110" :> 110) @@ ("120" :> 120) @@ ("150" :> 150)
  @@ ("1005" :> 1005) @@ ("1010" :> 1010)

IsInt(text) == text \in DOMAIN IntLiterals

int(text) == IntLiterals[text]

\* datetime.strptime(text, '%Y%m%d%H') as hours since 2020-01-01 00Z.
TimeLiterals ==
  ("2020010100" :> 0) @@ ("2020010106" :> 6) @@ ("2020010112" :> 12)
  @@ ("2020030100" :> 1440)

IsTime(text) == text \in DOMAIN TimeLiterals

strptime(text) == TimeLiterals[text]

\* A coordinate text split as text[:-1] and text[-1]; the empty text has no
\* last character (IndexError).
CoordLiterals ==
  ("251N" :> <<"251", "N">>) @@ ("100S" :> <<"100", "S">>)
  @@ ("800W" :> <<"800", "W">>) @@ ("1200E" :> <<"1200", "E">>)
  @@ ("251" :> <<"25", "1">>) @@ ("N" :> <<"", "N">>) @@ ("W" :> <<"", "W">>)
  @@ ("50W" :> <<"50", "W">>) @@ ("50E" :> <<"50", "E">>) @@ ("0E" :> <<"0", "E">>)
  @@ ("1750W" :> <<"1750", "W">>) @@ ("1750E" :> <<"1750", "E">>)

\* float(text) for the magnitudes of the inputs.
FloatLiterals ==
  ("251" :> 251) @@ ("100" :> 100) @@ ("800" :> 800) @@ ("1200" :> 1200)
  @@ ("25" :> 25) @@ ("50" :> 50) @@ ("0" :> 0) @@ ("1750" :> 1750)

IsFloat(text) == text \in DOMAIN FloatLiterals

float(text) == FloatLiterals[text]

\* f'{number:02}'
Format02(number) ==
  IF number >= 0 /\ number < 10 THEN "0" \o ToString(number) ELSE ToString(number)

-----------------------------------------------------------------------------
(* Format constants *)

basinletters ==
  ("AL" :> "L") @@ ("LS" :> "Q") @@ ("EP" :> "E") @@ ("CP" :> "C") @@ ("WP" :> "W")

ADeck_attr_indices ==
  ("basin" :> 0) @@ ("number" :> 1) @@ ("init" :> 2) @@ ("modelname" :> 4)
  @@ ("fhour" :> 5) @@ ("lat" :> 6) @@ ("lon" :> 7) @@ ("vmax" :> 8) @@ ("pmin" :> 9)
  @@ ("R34_NE" :> 13) @@ ("R34_SE" :> 14) @@ ("R34_SW" :> 15) @@ ("R34_NW" :> 16)
  @@ ("R50_NE" :> 13) @@ ("R50_SE" :> 14) @@ ("R50_SW" :> 15) @@ ("R50_NW" :> 16)
  @@ ("R64_NE" :> 13) @@ ("R64_SE" :> 14) @@ ("R64_SW" :> 15) @@ ("R64_NW" :> 16)
  @@ ("poci" :> 17) @@ ("roci" :> 18) @@ ("rmw" :> 19)

BDeck_attr_indices ==
  ("basin" :> 0) @@ ("number" :> 1) @@ ("time" :> 2) @@ ("lat" :> 6) @@ ("lon" :> 7)
  @@ ("vmax" :> 8) @@ ("pmin" :> 9) @@ ("classification" :> 10)
  @@ ("R34_NE" :> 13) @@ ("R34_SE" :> 14) @@ ("R34_SW" :> 15) @@ ("R34_NW" :> 16)
  @@ ("R50_NE" :> 13) @@ ("R50_SE" :> 14) @@ ("R50_SW" :> 15) @@ ("R50_NW" :> 16)
  @@ ("R64_NE" :> 13) @@ ("R64_SE" :> 14) @@ ("R64_SW" :> 15) @@ ("R64_NW" :> 16)
  @@ ("poci" :> 17) @@ ("roci" :> 18) @@ ("rmw" :> 19) @@ ("maxgust" :> 20)
  @@ ("eye_diameter" :> 21) @@ ("name" :> 27)

missing_values == {"", "-99", "-999"}

\* ('NE','SE','SW','NW')
quads == <<"NE", "SE", "SW", "NW">>

\* f'R{thresh}_{quad}'
RadiusAttr(thresh, quad) == "R" \o ToString(thresh) \o "_" \o quad

\* radii_attrs: every f'R{thresh}_{q}' for thresh in (34, 50, 64)
radii_attrs ==
  {RadiusAttr(t, quads[q]) : t \in {34, 50, 64}, q \in 1..4}

ADeck_optional == {"pmin", "poci", "roci", "rmw"}

BDeck_optional == {"pmin", "poci", "roci", "rmw", "maxgust", "eye_diameter"}

-----------------------------------------------------------------------------
(* Fields of a line *)

\* fields[i] exists (no IndexError)
HasField(fields, i) == i < Len(fields)

\* fields[i], 0-based
Field(fields, i) == fields[i + 1]

\* int(fields[i]) raises IndexError or ValueError
IntFieldRaises(fields, i) == ~HasField(fields, i) \/ ~IsInt(Field(fields, i))

\* strptime(fields[i], '%Y%m%d%H') raises
TimeFieldRaises(fields, i) == ~HasField(fields, i) \/ ~IsTime(Field(fields, i))

-----------------------------------------------------------------------------
(* Entry decoders: ADeckEntry.__init__ and BDeckEntry.__init__ *)

\* The coordinate branches read text[-1] and, for a recognized letter,
\* float(text[:-1]).
CoordRaises(text, letters) ==
  \/ text \notin DOMAIN CoordLiterals
  \/ /\ CoordLiterals[text][2] \in letters
     /\ ~IsFloat(CoordLiterals[text][1])

\* self.lat: set for N and S only
LatAttr(text) ==
  LET head == CoordLiterals[text][1]
      last == CoordLiterals[text][2]
  IN  IF last = "N" THEN "lat" :> float(head)
      ELSE IF last = "S" THEN "lat" :> (0 - float(head))
      ELSE << >>

\* self.lon in [-180, 180]: set for W and E only
LonAttr(text) ==
  LET head == CoordLiterals[text][1]
      last == CoordLiterals[text][2]
  IN  IF last = "W" THEN "lon" :> (0 - float(head))
      ELSE IF last = "E" THEN "lon" :> float(head)
      ELSE << >>

\* The try / except IndexError / else of the optional positive-definite
\* attributes raises only when a present, non-missing text is no integer.
OptionalFieldRaises(fields, indices, attr) ==
  /\ HasField(fields, indices[attr])
  /\ Field(fields, indices[attr]) \notin (missing_values \cup {"0"})
  /\ ~IsInt(Field(fields, indices[attr]))

\* OptionalField without the literal zero among the missing values.
OptionalField_ZeroKept(fields, indices, attr) ==
  IF ~HasField(fields, indices[attr]) THEN nan
  ELSE LET valstr == Field(fields, indices[attr])
       IN  IF valstr \notin missing_values THEN int(valstr) ELSE nan

OptionalField(fields, indices, attr) ==
  IF ~HasField(fields, indices[attr]) THEN nan
  ELSE LET valstr == Field(fields, indices[attr])
       IN  IF valstr \notin (missing_values \cup {"0"}) THEN int(valstr) ELSE nan

\* The wind-radii loop raises on a missing or non-integer threshold, on a
\* non-zero threshold that names no attribute of attr_indices (KeyError) and
\* on a missing or non-integer quadrant field.
WindRadiiRaises(group, indices) ==
  \E i \in 1..Len(group) :
    \/ IntFieldRaises(group[i], 11)
    \/ /\ int(Field(group[i], 11)) # 0
       /\ \E q \in 1..4 :
            LET attr == RadiusAttr(int(Field(group[i], 11)), quads[q])
            IN  \/ attr \notin DOMAIN indices
                \/ IntFieldRaises(group[i], indices[attr])

\* SetWindRadii with the attribute names built from the threshold 34 for
\* every line, so that a later line overwrites an earlier one.
RECURSIVE SetWindRadii_OneThreshold(_, _, _)
SetWindRadii_OneThreshold(group, indices, attrs) ==
  IF group = << >> THEN attrs
  ELSE LET lfields == Head(group)
           thresh == int(Field(lfields, 11))
       IN  IF thresh = 0 THEN SetWindRadii_OneThreshold(Tail(group), indices, attrs)
           ELSE SetWindRadii_OneThreshold(Tail(group), indices,
                  [attr \in {RadiusAttr(34, quads[q]) : q \in 1..4} |->
                     int(Field(lfields, indices[attr]))] @@ attrs)

\* SetWindRadii in which only the first line of the group is read.
SetWindRadii_FirstLineOnly(group, indices, attrs) ==
  IF group = << >> THEN attrs
  ELSE LET lfields == Head(group)
           thresh == int(Field(lfields, 11))
       IN  IF thresh = 0 THEN attrs
           ELSE [attr \in {RadiusAttr(thresh, quads[q]) : q \in 1..4} |->
                   int(Field(lfields, indices[attr]))] @@ attrs

\* The wind-radii loop: attrs maps the radius attributes set so far.
RECURSIVE SetWindRadii(_, _, _)
SetWindRadii(group, indices, attrs) ==
  IF group = << >> THEN attrs
  ELSE LET lfields == Head(group)
           thresh == int(Field(lfields, 11))
       IN  IF thresh = 0 THEN SetWindRadii(Tail(group), indices, attrs)
           ELSE SetWindRadii(Tail(group), indices,
                  [attr \in {RadiusAttr(thresh, quads[q]) : q \in 1..4} |->
                     int(Field(lfields, indices[attr]))] @@ attrs)

\* "Set wind radii that are not present to missing": not getattr(self, attr, None)
MissingRadii(attrs) ==
  [attr \in radii_attrs |->
     IF attr \in DOMAIN attrs /\ attrs[attr] # 0 THEN attrs[attr] ELSE nan]

ADeckEntryRaises(group) ==
  \/ group = << >>
  \/ LET fields == group[1]
     IN  \/ ~HasField(fields, ADeck_attr_indices["modelname"])
         \/ IntFieldRaises(fields, ADeck_attr_indices["number"])
         \/ Field(fields, ADeck_attr_indices["basin"]) \notin DOMAIN basinletters
         \/ TimeFieldRaises(fields, ADeck_attr_indices["init"])
         \/ IntFieldRaises(fields, ADeck_attr_indices["fhour"])
         \/ ~HasField(fields, ADeck_attr_indices["lon"])
         \/ CoordRaises(Field(fields, ADeck_attr_indices["lat"]), {"N", "S"})
         \/ CoordRaises(Field(fields, ADeck_attr_indices["lon"]), {"W", "E"})
         \/ IntFieldRaises(fields, ADeck_attr_indices["vmax"])
         \/ \E attr \in ADeck_optional :
              OptionalFieldRaises(fields, ADeck_attr_indices, attr)
  \/ WindRadiiRaises(group, ADeck_attr_indices)

\* The attributes of ADeckEntry(group) when the constructor does not raise.
ADeckEntry(group) ==
  LET fields == group[1]
      number == int(Field(fields, ADeck_attr_indices["number"]))
      basin == Field(fields, ADeck_attr_indices["basin"])
      init == strptime(Field(fields, ADeck_attr_indices["init"]))
      fhour == int(Field(fields, ADeck_attr_indices["fhour"]))
  IN  [modelname |-> Field(fields, ADeck_attr_indices["modelname"]),
       basin |-> basin,
       number |-> number,
       stormID |-> Format02(number) \o basinletters[basin],
       init |-> init,
       fhour |-> fhour,
       validtime |-> init + fhour,
       vmax |-> int(Field(fields, ADeck_attr_indices["vmax"]))]
      @@ LatAttr(Field(fields, ADeck_attr_indices["lat"]))
      @@ LonAttr(Field(fields, ADeck_attr_indices["lon"]))
      @@ [attr \in ADeck_optional |-> OptionalField(fields, ADeck_attr_indices, attr)]
      @@ MissingRadii(SetWindRadii(group, ADeck_attr_indices, << >>))

BDeckEntryRaises(group) ==
  \/ group = << >>
  \/ LET fields == group[1]
     IN  \/ IntFieldRaises(fields, BDeck_attr_indices["number"])
         \/ Field(fields, BDeck_attr_indices["basin"]) \notin DOMAIN basinletters
         \/ TimeFieldRaises(fields, BDeck_attr_indices["time"])
         \/ ~HasField(fields, BDeck_attr_indices["lon"])
         \/ CoordRaises(Field(fields, BDeck_attr_indices["lat"]), {"N", "S"})
         \/ CoordRaises(Field(fields, BDeck_attr_indices["lon"]), {"W", "E"})
         \/ IntFieldRaises(fields, BDeck_attr_indices["vmax"])
         \/ \E attr \in BDeck_optional :
              OptionalFieldRaises(fields, BDeck_attr_indices, attr)
         \/ ~HasField(fields, BDeck_attr_indices["classification"])
  \/ WindRadiiRaises(group, BDeck_attr_indices)

\* The attributes of BDeckEntry(group) when the constructor does not raise.
BDeckEntry(group) ==
  LET fields == group[1]
      number == int(Field(fields, BDeck_attr_indices["number"]))
      basin == Field(fields, BDeck_attr_indices["basin"])
  IN  [basin |-> basin,
       number |-> number,
       stormID |-> Format02(number) \o basinletters[basin],
       stormname |-> IF HasField(fields, BDeck_attr_indices["name"])
                     THEN Field(fields, BDeck_attr_indices["name"]) ELSE "NONAME",
       time |-> strptime(Field(fields, BDeck_attr_indices["time"])),
       vmax |-> int(Field(fields, BDeck_attr_indices["vmax"])),
       classification |-> Field(fields, BDeck_attr_indices["classification"])]
      @@ LatAttr(Field(fields, BDeck_attr_indices["lat"]))
      @@ LonAttr(Field(fields, BDeck_attr_indices["lon"]))
      @@ [attr \in BDeck_optional |-> OptionalField(fields, BDeck_attr_indices, attr)]
      @@ MissingRadii(SetWindRadii(group, BDeck_attr_indices, << >>))

-----------------------------------------------------------------------------
(* Python dicts: sequences of <<key, value>> in insertion order *)

DictHas(d, key) == \E i \in 1..Len(d) : d[i][1] = key

\* d[key] = value: a new key is added last, a present key keeps its place
\* and has its value replaced.
DictSet(d, key, value) ==
  IF DictHas(d, key)
  THEN [i \in 1..Len(d) |-> IF d[i][1] = key THEN <<key, value>> ELSE d[i]]
  ELSE Append(d, <<key, value>>)

\* d.setdefault(key, []).append(item)
DictAppend(d, key, item) ==
  IF DictHas(d, key)
  THEN [i \in 1..Len(d) |-> IF d[i][1] = key THEN <<key, Append(d[i][2], item)>> ELSE d[i]]
  ELSE Append(d, <<key, <<item>>>>)

\* list(d.values())
DictValues(d) == [i \in 1..Len(d) |-> d[i][2]]

-----------------------------------------------------------------------------
(* ADeck.__init__ *)

\* Tagging a line raises (outside any try): fields[1], fields[4],
\* strptime(fields[2]) or int(fields[5]).
ADeckTagRaises(fields) ==
  \/ ~HasField(fields, ADeck_attr_indices["number"])
  \/ ~HasField(fields, ADeck_attr_indices["modelname"])
  \/ TimeFieldRaises(fields, ADeck_attr_indices["init"])
  \/ IntFieldRaises(fields, ADeck_attr_indices["fhour"])

\* (stormnum, modelname, init, fhour) of a line
LineID(fields) ==
  <<Field(fields, ADeck_attr_indices["number"]),
    Field(fields, ADeck_attr_indices["modelname"]),
    strptime(Field(fields, ADeck_attr_indices["init"])),
    int(Field(fields, ADeck_attr_indices["fhour"]))>>

\* lineIDs[(stormnum, modelname, init, fhour)] = line, for every line
RECURSIVE TagLines(_, _)
TagLines(ls, lineIDs) ==
  IF ls = << >> THEN lineIDs
  ELSE TagLines(Tail(ls), DictSet(lineIDs, LineID(Head(ls)), Head(ls)))

\* (stormnum, modelname, init) of the keys of lineIDs
RunKeys(lineIDs) ==
  {<<lineIDs[i][1][1], lineIDs[i][1][2], lineIDs[i][1][3]>> : i \in 1..Len(lineIDs)}

\* The orders in which the set of run keys may be iterated.
Orders(S) ==
  {order \in [1..Cardinality(S) -> S] : \A x \in S : \E i \in DOMAIN order : order[i] = x}

\* line_timegroups[run].setdefault(fhour, []).append(line) over the items of
\* lineIDs that belong to run
RECURSIVE TimeGroupsOfRun(_, _, _)
TimeGroupsOfRun(lineIDs, run, timegroups) ==
  IF lineIDs = << >> THEN timegroups
  ELSE LET ID == Head(lineIDs)[1]
           line == Head(lineIDs)[2]
       IN  IF <<ID[1], ID[2], ID[3]>> = run
           THEN TimeGroupsOfRun(Tail(lineIDs), run, DictAppend(timegroups, ID[4], line))
           ELSE TimeGroupsOfRun(Tail(lineIDs), run, timegroups)

\* line_timegroups, its runs in the given order
LineTimeGroups(lineIDs, order) ==
  [i \in 1..Len(order) |-> <<order[i], TimeGroupsOfRun(lineIDs, order[i], << >>)>>]

\* The groups in the order of the two nested loops over line_timegroups.
RECURSIVE ADeckGroups(_)
ADeckGroups(line_timegroups) ==
  IF line_timegroups = << >> THEN << >>
  ELSE DictValues(Head(line_timegroups)[2]) \o ADeckGroups(Tail(line_timegroups))

\* ADeckParseEntries in which a group that fails ends the loop.
RECURSIVE ADeckParseEntries_StopAtFailure(_)
ADeckParseEntries_StopAtFailure(groups) ==
  IF groups = << >> THEN << >>
  ELSE IF ADeckEntryRaises(Head(groups)) THEN << >>
       ELSE <<ADeckEntry(Head(groups))>> \o ADeckParseEntries_StopAtFailure(Tail(groups))

\* try: entry = ADeckEntry(group) / except: skip / else: entries.append(entry)
RECURSIVE ADeckParseEntries(_)
ADeckParseEntries(groups) ==
  IF groups = << >> THEN << >>
  ELSE IF ADeckEntryRaises(Head(groups)) THEN ADeckParseEntries(Tail(groups))
       ELSE <<ADeckEntry(Head(groups))>> \o ADeckParseEntries(Tail(groups))

\* entries_by_modelrun.setdefault((e.stormID, e.modelname, e.init), []).append(e)
RECURSIVE EntriesByModelRun(_, _)
EntriesByModelRun(entries, by_modelrun) ==
  IF entries = << >> THEN by_modelrun
  ELSE LET e == Head(entries)
       IN  EntriesByModelRun(Tail(entries),
             DictAppend(by_modelrun, <<e.stormID, e.modelname, e.init>>, e))

\* The ADeck constructed from ls, the set of run keys iterated in `order`.
ADeck(ls, order) ==
  LET lineIDs == TagLines(ls, << >>)
      line_timegroups == LineTimeGroups(lineIDs, order)
      entries == ADeckParseEntries(ADeckGroups(line_timegroups))
  IN  [kind |-> "ADeck", raised |-> FALSE,
       line_timegroups |-> line_timegroups,
       entries |-> entries,
       entries_by_modelrun |-> EntriesByModelRun(entries, << >>)]

-----------------------------------------------------------------------------
(* BDeck.__init__ *)

\* line.split(',')[2] raises IndexError (outside any try)
BDeckGroupRaises(fields) == ~HasField(fields, BDeck_attr_indices["time"])

\* line_timegroups.setdefault(timestr, []).append(line), for every line
RECURSIVE BDeckTimeGroups(_, _)
BDeckTimeGroups(ls, timegroups) ==
  IF ls = << >> THEN timegroups
  ELSE BDeckTimeGroups(Tail(ls),
         DictAppend(timegroups, Field(Head(ls), BDeck_attr_indices["time"]), Head(ls)))

\* try: entry = BDeckEntry(group) / except: skip / else: entries.append(entry)
RECURSIVE BDeckParseEntries(_)
BDeckParseEntries(groups) ==
  IF groups = << >> THEN << >>
  ELSE IF BDeckEntryRaises(Head(groups)) THEN BDeckParseEntries(Tail(groups))
       ELSE <<BDeckEntry(Head(groups))>> \o BDeckParseEntries(Tail(groups))

\* {entry.time: entry for entry in entries}
RECURSIVE EntriesByTime(_, _)
EntriesByTime(entries, by_time) ==
  IF entries = << >> THEN by_time
  ELSE EntriesByTime(Tail(entries), DictSet(by_time, Head(entries).time, Head(entries)))

\* The constructor raises: a line without field 2, or entries[0] of an empty
\* entry list.
BDeckRaises(ls) ==
  \/ \E i \in 1..Len(ls) : BDeckGroupRaises(ls[i])
  \/ BDeckParseEntries(DictValues(BDeckTimeGroups(ls, << >>))) = << >>

\* The BDeck constructed from ls.
BDeck(ls) ==
  LET line_timegroups == BDeckTimeGroups(ls, << >>)
      entries == BDeckParseEntries(DictValues(line_timegroups))
  IN  [kind |-> "BDeck", raised |-> FALSE,
       line_timegroups |-> line_timegroups,
       entries |-> entries,
       entries_by_time |-> EntriesByTime(entries, << >>),
       stormID |-> entries[1].stormID]

-----------------------------------------------------------------------------
(* ModelForecast.__init__ (ADeck.get_forecast) and Storm.__init__ (BDeck.as_storm) *)

\* The keys of dtypes in ModelForecast.__init__
ModelForecast_dtypes ==
  {"basin", "lat", "lon", "fhour", "validtime", "vmax", "pmin", "rmw", "poci", "roci"}
  \cup radii_attrs

\* The keys of dtypes in Storm.__init__
Storm_dtypes ==
  {"basin", "lat", "lon", "time", "vmax", "pmin", "rmw", "poci", "roci", "maxgust",
   "eye_diameter", "classification"} \cup radii_attrs

\* set(getattr(e, attr) for e in entries)
Distinct(entries, attr) == {entries[i][attr] : i \in 1..Len(entries)}

\* [e for e in entries if wanted is None or getattr(e, attr) == wanted];
\* an argument is << >> for None and <<value>> otherwise.
Matching(entries, attr, wanted) ==
  IF wanted = << >> THEN entries
  ELSE SelectSeq(entries, LAMBDA e : e[attr] = wanted[1])

\* The init argument is << >> (None), <<"datetime", t>> or <<"str", text>>;
\* a str is converted with strptime.
InitRaises(init) == init # << >> /\ init[1] = "str" /\ ~IsTime(init[2])

ParseInit(init) ==
  IF init = << >> THEN << >>
  ELSE IF init[1] = "str" THEN <<strptime(init[2])>>
  ELSE <<init[2]>>

\* np.array([getattr(entry, attr) for entry in entries]) for every attr of
\* dtypes raises AttributeError when an entry lacks one of them.
ArraysRaise(entries, dtypes) ==
  \E i \in 1..Len(entries) : \E attr \in dtypes : attr \notin DOMAIN entries[i]

\* A text stored in an array of dtype 'U2' keeps its first two characters.
U2Literals ==
  ("AL" :> "AL") @@ ("LS" :> "LS") @@ ("EP" :> "EP") @@ ("CP" :> "CP") @@ ("WP" :> "WP")
  @@ ("TS" :> "TS") @@ ("HU" :> "HU") @@ ("DB" :> "DB") @@ ("" :> "")
  @@ ("TSX" :> "TS")

\* The attributes whose dtype is 'U2'; the numeric and datetime dtypes keep
\* the values of the entries.
U2_attrs == {"basin", "classification"}

\* np.array([value], dtype=dtypes[attr])[0]
AsType(attr, value) == IF attr \in U2_attrs THEN U2Literals[value] ELSE value

\* Arrays in which the lat array is filled from the entries in reverse order.
Arrays_LatReversed(entries, dtypes) ==
  [attr \in dtypes |->
     [i \in 1..Len(entries) |->
        IF attr = "lat" THEN entries[Len(entries) + 1 - i][attr]
        ELSE AsType(attr, entries[i][attr])]]

\* setattr(self, attr, np.array([getattr(entry, attr) for entry in entries],
\* dtype=dtype)) for every attr of dtypes
Arrays(entries, dtypes) ==
  [attr \in dtypes |-> [i \in 1..Len(entries) |-> AsType(attr, entries[i][attr])]]

Raised(class, error) == [kind |-> class, raised |-> error]

\* ModelForecast in which the model check is left out.
ModelForecast_NoModelCheck(deck, stormID, modelname, init) ==
  LET by_storm == Matching(deck.entries, "stormID", stormID)
      by_model == Matching(by_storm, "modelname", modelname)
      needed_entries == Matching(by_model, "init", ParseInit(init))
  IN  IF stormID = << >> /\ Cardinality(Distinct(deck.entries, "stormID")) > 1
      THEN Raised("ModelForecast", "multiple storms")
      ELSE IF InitRaises(init)
      THEN Raised("ModelForecast", "strptime")
      ELSE IF init = << >> /\ Cardinality(Distinct(by_model, "init")) > 1
      THEN Raised("ModelForecast", "multiple model runs")
      ELSE IF needed_entries = << >>
      THEN Raised("ModelForecast", "no entries")
      ELSE IF ArraysRaise(needed_entries, ModelForecast_dtypes)
      THEN Raised("ModelForecast", "AttributeError")
      ELSE [kind |-> "ModelForecast", raised |-> "",
            modelname |-> needed_entries[1].modelname,
            init |-> needed_entries[1].init,
            stormID |-> needed_entries[1].stormID]
           @@ Arrays(needed_entries, ModelForecast_dtypes)

\* ModelForecast(adeck, stormID, modelname, init): the forecast, or the error
\* raised (a ValueError named by its message, or the AttributeError).
ModelForecast(deck, stormID, modelname, init) ==
  LET by_storm == Matching(deck.entries, "stormID", stormID)
      by_model == Matching(by_storm, "modelname", modelname)
      needed_entries == Matching(by_model, "init", ParseInit(init))
  IN  IF stormID = << >> /\ Cardinality(Distinct(deck.entries, "stormID")) > 1
      THEN Raised("ModelForecast", "multiple storms")
      ELSE IF modelname = << >> /\ Cardinality(Distinct(by_storm, "modelname")) > 1
      THEN Raised("ModelForecast", "multiple models")
      ELSE IF InitRaises(init)
      THEN Raised("ModelForecast", "strptime")
      ELSE IF init = << >> /\ Cardinality(Distinct(by_model, "init")) > 1
      THEN Raised("ModelForecast", "multiple model runs")
      ELSE IF needed_entries = << >>
      THEN Raised("ModelForecast", "no entries")
      ELSE IF ArraysRaise(needed_entries, ModelForecast_dtypes)
      THEN Raised("ModelForecast", "AttributeError")
      ELSE [kind |-> "ModelForecast", raised |-> "",
            modelname |-> needed_entries[1].modelname,
            init |-> needed_entries[1].init,
            stormID |-> needed_entries[1].stormID]
           @@ Arrays(needed_entries, ModelForecast_dtypes)

\* Storm(bdeck): the storm, or the AttributeError raised.
Storm(deck) ==
  IF ArraysRaise(deck.entries, Storm_dtypes)
  THEN Raised("Storm", "AttributeError")
  ELSE [kind |-> "Storm", raised |-> "",
        ID |-> deck.entries[Len(deck.entries)].stormID,
        name |-> deck.entries[Len(deck.entries)].stormname]
       @@ Arrays(deck.entries, Storm_dtypes)

\* ADeck.get_all_forecasts: ModelForecast(self, stormID, modelname, init)
\* for every key of entries_by_modelrun, in the order of the dict; the first
\* constructor that raises ends the call with its error.
AllForecasts(deck) ==
  LET forecasts ==
        [i \in 1..Len(deck.entries_by_modelrun) |->
           LET key == deck.entries_by_modelrun[i][1]
           IN  ModelForecast(deck, <<key[1]>>, <<key[2]>>, <<"datetime", key[3]>>)]
      failed == {i \in 1..Len(forecasts) : forecasts[i].raised # ""}
  IN  IF failed # {}
      THEN Raised("get_all_forecasts",
                  forecasts[CHOOSE i \in failed : \A j \in failed : i <= j].raised)
      ELSE [kind |-> "get_all_forecasts", raised |-> "", forecasts |-> forecasts]

-----------------------------------------------------------------------------
(* storm.py: BestTrackObservation, StormHistory and Storm *)

storm_basinletters ==
  ("AL" :> "L") @@ ("LS" :> "Q") @@ ("EP" :> "E") @@ ("CP" :> "C")

word_numbers ==
  (1 :> "ONE") @@ (2 :> "TWO") @@ (3 :> "THREE") @@ (4 :> "FOUR") @@ (5 :> "FIVE")
  @@ (6 :> "SIX") @@ (7 :> "SEVEN") @@ (8 :> "EIGHT") @@ (9 :> "NINE") @@ (10 :> "TEN")
  @@ (11 :> "ELEVEN") @@ (12 :> "TWELVE") @@ (13 :> "THIRTEEN") @@ (14 :> "FOURTEEN")
  @@ (15 :> "FIFTEEN") @@ (16 :> "SIXTEEN") @@ (17 :> "SEVENTEEN") @@ (18 :> "EIGHTEEN")
  @@ (19 :> "NINETEEN") @@ (20 :> "TWENTY") @@ (21 :> "TWENTYONE") @@ (22 :> "TWENTYTWO")
  @@ (23 :> "TWENTYTHREE") @@ (24 :> "TWENTYFOUR") @@ (25 :> "TWENTYFIVE")
  @@ (26 :> "TWENTYSIX") @@ (27 :> "TWENTYSEVEN") @@ (28 :> "TWENTYEIGHT")
  @@ (29 :> "TWENTYNINE") @@ (30 :> "THIRTY")

titles ==
  ("WV" :> "Invest") @@ ("LO" :> "Invest") @@ ("DB" :> "Invest")
  @@ ("TD" :> "Tropical Depression") @@ ("TS" :> "Tropical Storm")
  @@ ("HU" :> "Hurricane") @@ ("SD" :> "Subtropical Depression")
  @@ ("SS" :> "Subtropical Storm") @@ ("PT" :> "Post-tropical Storm")
  @@ ("EX" :> "Extratropical Storm") @@ ("XX" :> "Unknown Storm")

\* ('TD','TS','HU','SD','SS','PT')
TC_classifications == {"TD", "TS", "HU", "SD", "SS", "PT"}

\* self.lat of a BestTrackObservation: set for N and S only
BestTrackLat(text) ==
  LET head == CoordLiterals[text][1]
      last == CoordLiterals[text][2]
  IN  IF last = "N" THEN "lat" :> float(head)
      ELSE IF last = "S" THEN "lat" :> (0 - float(head))
      ELSE << >>

\* self.lon of a BestTrackObservation, in [0, 360]: 360 - 0.1*m for W, 0.1*m
\* for E
BestTrackLon(text) ==
  LET head == CoordLiterals[text][1]
      last == CoordLiterals[text][2]
  IN  IF last = "W" THEN "lon" :> (3600 - float(head))
      ELSE IF last = "E" THEN "lon" :> float(head)
      ELSE << >>

\* int(fields[i]) if fields[i] not in skip else np.nan
BestTrackOptionalRaises(fields, i, skip) ==
  \/ ~HasField(fields, i)
  \/ Field(fields, i) \notin skip /\ ~IsInt(Field(fields, i))

BestTrackOptional(fields, i, skip) ==
  IF Field(fields, i) \in skip THEN nan ELSE int(Field(fields, i))

\* self.wind_radii[threshold] = {'NE': ..., 'SE': ..., 'SW': ..., 'NW': ...},
\* for every line of the group
RECURSIVE BestTrackWindRadii(_, _)
BestTrackWindRadii(group, wind_radii) ==
  IF group = << >> THEN wind_radii
  ELSE LET lfields == Head(group)
       IN  BestTrackWindRadii(Tail(group),
             DictSet(wind_radii, int(Field(lfields, 11)),
                     [NE |-> int(Field(lfields, 13)), SE |-> int(Field(lfields, 14)),
                      SW |-> int(Field(lfields, 15)), NW |-> int(Field(lfields, 16))]))

BestTrackObservationRaises(group) ==
  \/ group = << >>
  \/ LET fields == group[1]
     IN  \/ TimeFieldRaises(fields, 2)
         \/ ~HasField(fields, 7)
         \/ CoordRaises(Field(fields, 6), {"N", "S"})
         \/ CoordRaises(Field(fields, 7), {"W", "E"})
         \/ IntFieldRaises(fields, 8)
         \/ IntFieldRaises(fields, 9)
         \/ ~HasField(fields, 10)
         \/ \E i \in 1..Len(group) : \E k \in {11, 13, 14, 15, 16} :
              IntFieldRaises(group[i], k)
         \/ \E k \in {17, 18, 19} : BestTrackOptionalRaises(fields, k, {""})
         \/ \E k \in {20, 21} : BestTrackOptionalRaises(fields, k, {"", "0"})

\* The attributes of BestTrackObservation(group) when the constructor does
\* not raise.
BestTrackObservation(group) ==
  LET fields == group[1]
  IN  [basin |-> Field(fields, 0),
       time |-> strptime(Field(fields, 2)),
       maxwind |-> int(Field(fields, 8)),
       pres |-> IF int(Field(fields, 9)) > 0 THEN int(Field(fields, 9)) ELSE nan,
       classification |-> Field(fields, 10),
       wind_radii |-> BestTrackWindRadii(group, << >>),
       envpres |-> BestTrackOptional(fields, 17, {""}),
       roci |-> BestTrackOptional(fields, 18, {""}),
       rmw |-> BestTrackOptional(fields, 19, {""}),
       maxgust |-> BestTrackOptional(fields, 20, {"", "0"}),
       eyeD |-> BestTrackOptional(fields, 21, {"", "0"})]
      @@ BestTrackLat(Field(fields, 6))
      @@ BestTrackLon(Field(fields, 7))

\* timegroups.setdefault(timestr, []).append(line), for every line
RECURSIVE storm_TimeGroups(_, _)
storm_TimeGroups(ls, timegroups) ==
  IF ls = << >> THEN timegroups
  ELSE storm_TimeGroups(Tail(ls), DictAppend(timegroups, Field(Head(ls), 2), Head(ls)))

\* try: ob = BestTrackObservation(group) / except: skip / else: obs.append(ob)
RECURSIVE storm_ParseObs(_)
storm_ParseObs(groups) ==
  IF groups = << >> THEN << >>
  ELSE IF BestTrackObservationRaises(Head(groups)) THEN storm_ParseObs(Tail(groups))
       ELSE <<BestTrackObservation(Head(groups))>> \o storm_ParseObs(Tail(groups))

\* StormHistory reads every attribute of the latest observation from every
\* observation: AttributeError when one of them lacks it.
StormHistoryRaises(obs) ==
  \E var \in DOMAIN obs[Len(obs)] : \E i \in 1..Len(obs) : var \notin DOMAIN obs[i]

StormHistory(obs) ==
  [var \in DOMAIN obs[Len(obs)] |-> [i \in 1..Len(obs) |-> obs[i][var]]]

\* self.title
storm_Title(number, classification, history) ==
  IF number >= 90 THEN "Invest"
  ELSE IF classification \in DOMAIN titles /\ number < 70
  THEN IF ~\E i \in 1..Len(history.classification) :
             history.classification[i] \in TC_classifications
       THEN "Potential Tropical Cyclone"
       ELSE IF classification \notin TC_classifications THEN "Remnants of"
       ELSE titles[classification]
  ELSE "Unknown Storm"

\* word_numbers.get(self.number, name)
WordNumber(number, name) ==
  IF number \in DOMAIN word_numbers THEN word_numbers[number] ELSE name

\* self.name
storm_Name(number, title, name) ==
  IF title = "Potential Tropical Cyclone" THEN WordNumber(number, name)
  ELSE IF number < 90 /\ name = "INVEST" THEN WordNumber(number, name)
  ELSE name

\* Storm(data) raises: a line without field 2, no observation decoded
\* (self.obs[-1]), an attribute missing in StormHistory, int(fields[1]) or
\* field 27 of the last line.
storm_StormRaises(ls) ==
  \/ \E i \in 1..Len(ls) : ~HasField(ls[i], 2)
  \/ storm_ParseObs(DictValues(storm_TimeGroups(ls, << >>))) = << >>
  \/ StormHistoryRaises(storm_ParseObs(DictValues(storm_TimeGroups(ls, << >>))))
  \/ IntFieldRaises(ls[Len(ls)], 1)
  \/ ~HasField(ls[Len(ls)], 27)

\* The Storm constructed from the lines of a best track file (no line of the
\* inputs holds the text TRANSITIONED, so transID and oldID are None).
storm_Storm(ls) ==
  LET obs == storm_ParseObs(DictValues(storm_TimeGroups(ls, << >>)))
      latest == obs[Len(obs)]
      history == StormHistory(obs)
      fields == ls[Len(ls)]
      number == int(Field(fields, 1))
      basin == history.basin[1]
      title == storm_Title(number, latest.classification, history)
  IN  [kind |-> "storm.Storm", raised |-> "",
       obs |-> obs,
       history |-> history,
       number |-> number,
       ID |-> Format02(number)
              \o (IF basin \in DOMAIN storm_basinletters
                  THEN storm_basinletters[basin] ELSE ""),
       title |-> title,
       name |-> storm_Name(number, title, Field(fields, 27)),
       transID |-> "None",
       oldID |-> "None"]
      @@ latest

-----------------------------------------------------------------------------
(* storm.py: ModelForecast *)

\* float(text) of a wind, pressure or radius field: the numbers int() reads
\* and the magnitudes of FloatLiterals.
FloatFieldLiterals == IntLiterals @@ FloatLiterals

\* float(fields[i] or np.nan) raises IndexError or ValueError
FloatFieldRaises(fields, i) ==
  \/ ~HasField(fields, i)
  \/ Field(fields, i) # "" /\ Field(fields, i) \notin DOMAIN FloatFieldLiterals

\* value = float(fields[i] or np.nan); value if value > 0 else np.nan
PositiveField(fields, i) ==
  LET value == IF Field(fields, i) = "" THEN nan ELSE FloatFieldLiterals[Field(fields, i)]
  IN  IF value # nan /\ value > 0 THEN value ELSE nan

\* The local variables lat and lon of ModelForecast.__init__ keep their
\* values from one line to the next: << >> is a variable not yet bound,
\* <<value>> a bound one.
Unbound == [lat |-> << >>, lon |-> << >>]

\* One pass of the loop raises.  In the latitude branches the test after
\* `if latstr[-1] == 'N'` is `elif lat[-1] == 'S'`, on the local lat: an
\* unbound variable (UnboundLocalError) on the first line and a float
\* (TypeError) after a line that bound it, so the test raises whenever it is
\* reached.  A longitude without W or E leaves lon as it was, and
\* `self.lon[i] = lon` raises if lon is unbound.
ForecastLineRaises(fields, locals) ==
  \/ ~HasField(fields, 7)
  \/ Field(fields, 6) \notin DOMAIN CoordLiterals
  \/ /\ CoordLiterals[Field(fields, 6)][2] = "N"
     /\ ~IsFloat(CoordLiterals[Field(fields, 6)][1])
  \/ CoordLiterals[Field(fields, 6)][2] # "N"
  \/ CoordRaises(Field(fields, 7), {"W", "E"})
  \/ CoordLiterals[Field(fields, 7)][2] \notin {"W", "E"} /\ locals.lon = << >>
  \/ IntFieldRaises(fields, 5)
  \/ \E i \in {8, 9, 19} : FloatFieldRaises(fields, i)

\* lat and lon after one pass of the loop that does not raise
ForecastLineLocals(fields, locals) ==
  LET lonstr == CoordLiterals[Field(fields, 7)]
  IN  [lat |-> <<float(CoordLiterals[Field(fields, 6)][1])>>,
       lon |-> IF lonstr[2] = "W" THEN <<0 - float(lonstr[1])>>
               ELSE IF lonstr[2] = "E" THEN <<float(lonstr[1])>>
               ELSE locals.lon]

\* Some pass of the loop over the lines raises.
RECURSIVE ForecastLoopRaises(_, _)
ForecastLoopRaises(ls, locals) ==
  /\ ls # << >>
  /\ \/ ForecastLineRaises(Head(ls), locals)
     \/ ForecastLoopRaises(Tail(ls), ForecastLineLocals(Head(ls), locals))

\* The arrays filled by the loop: one record of elements for each line.
RECURSIVE ForecastLoop(_, _, _)
ForecastLoop(ls, init, locals) ==
  IF ls = << >> THEN << >>
  ELSE LET fields == Head(ls)
           new == ForecastLineLocals(fields, locals)
       IN  <<[lat |-> new.lat[1],
              lon |-> new.lon[1],
              FH |-> int(Field(fields, 5)),
              time |-> init + int(Field(fields, 5)),
              wind |-> PositiveField(fields, 8),
              mslp |-> PositiveField(fields, 9),
              rmw |-> PositiveField(fields, 19)]>>
           \o ForecastLoop(Tail(ls), init, new)

\* min(self.lon) and max(self.lon)
MinOf(array) == CHOOSE x \in {array[i] : i \in DOMAIN array} :
                  \A i \in DOMAIN array : x <= array[i]

MaxOf(array) == CHOOSE x \in {array[i] : i \in DOMAIN array} :
                  \A i \in DOMAIN array : x >= array[i]

\* The post-processing of the longitudes (tenths of a degree): a track with
\* minlon*maxlon <= 0 and abs(maxlon) < 140 has 360 added to its longitudes
\* >= 0; then every longitude < 0 has 360 added.
PostProcessLon(array) ==
  LET minlon == MinOf(array)
      maxlon == MaxOf(array)
      absmax == IF maxlon >= 0 THEN maxlon ELSE 0 - maxlon
      shifted == IF minlon * maxlon <= 0 /\ absmax < 1400
                 THEN [i \in DOMAIN array |->
                         IF array[i] >= 0 THEN array[i] + 3600 ELSE array[i]]
                 ELSE array
  IN  [i \in DOMAIN array |-> IF shifted[i] < 0 THEN shifted[i] + 3600 ELSE shifted[i]]

\* ModelForecast(data) raises: no line (lines[0]), fields[4] or the init time
\* of the first line, or a pass of the loop.
storm_ModelForecastRaises(ls) ==
  \/ ls = << >>
  \/ ~HasField(ls[1], 4)
  \/ TimeFieldRaises(ls[1], 2)
  \/ ForecastLoopRaises(ls, Unbound)

\* The ModelForecast constructed from the lines of the text of an A-deck.
storm_ModelForecast(ls) ==
  LET init == strptime(Field(ls[1], 2))
      rows == ForecastLoop(ls, init, Unbound)
      column(name) == [i \in 1..Len(rows) |-> rows[i][name]]
  IN  [kind |-> "storm.ModelForecast", raised |-> "",
       modelname |-> Field(ls[1], 4),
       init |-> init,
       lat |-> column("lat"),
       lon |-> PostProcessLon(column("lon")),
       FH |-> column("FH"),
       time |-> column("time"),
       wind |-> column("wind"),
       mslp |-> column("mslp"),
       rmw |-> column("rmw")]

-----------------------------------------------------------------------------
(* Equality and hash of the aggregates *)

\* ModelForecast and Storm of atcf.py define __hash__ and no __eq__, so
\* a == b is the comparison of object: a is b.  The arguments are the places
\* of the two objects in `objects`.
object_eq(a, b) == a = b

\* ModelForecast.__hash__: the hash of a tuple, equal for equal tuples
ModelForecast_hash(self) == <<self.modelname, self.stormID, self.init>>

\* Storm.__hash__ (atcf.py)
Storm_hash(self) == <<self.ID, self.name>>

\* Storm.__eq__ (storm.py): 30*86400 seconds are 30*24 hours
storm_Storm_eq(self, other) ==
  /\ self.ID = other.ID
  /\ self.name = other.name
  /\ (IF self.time >= other.time THEN self.time - other.time
      ELSE other.time - self.time) < 30 * 24

\* Storm.__hash__ (storm.py)
storm_Storm_hash(self) == <<self.ID, self.name, self.time>>

-----------------------------------------------------------------------------
(* Input lines *)

\* The 28 fields of a full line, from a record of the fields that vary.
Line(r) ==
  <<r.basin, r.number, r.time, "03", r.model, r.fhour, r.lat, r.lon, r.vmax,
    r.pmin, r.cls, r.thresh, "NEQ", r.radii[1], r.radii[2], r.radii[3], r.radii[4],
    r.poci, r.roci, r.rmw, r.maxgust, r.eye, "", "", "", "", "", r.name>>

\* A line cut after its first n fields.
Short(line, n) == SubSeq(line, 1, n)

BaseLine ==
  [basin |-> "AL", number |-> "01", time |-> "2020010100", model |-> "GFS",
   fhour |-> "0", lat |-> "251N", lon |-> "800W", vmax |-> "35", pmin |-> "1005",
   cls |-> "TS", thresh |-> "34", radii |-> <<"60", "60", "40", "40">>,
   poci |-> "1010", roci |-> "150", rmw |-> "20", maxgust |-> "45", eye |-> "15",
   name |-> "ALPHA"]

\* Texts of an optional field: the missing values, two spellings of zero,
\* a number, and a text that is no number.
OptionalTexts == <<"1005", "", "-99", "-999", "0", "00">>

\* Line k of 0..5 gives the six optional fields the six texts, rotated by k.
OptionalLine(k) ==
  LET text(j) == OptionalTexts[((j + k) % 6) + 1]
  IN  Line([BaseLine EXCEPT !.thresh = "0", !.radii = <<"0", "0", "0", "0">>,
              !.pmin = text(0), !.poci = text(1), !.roci = text(2),
              !.rmw = text(3), !.maxgust = text(4), !.eye = text(5)])

\* The lines given to the entry decoders.
EntryLines ==
  {Line([BaseLine EXCEPT !.thresh = "34", !.radii = <<"120", "110", "100", "90">>]),
   Line([BaseLine EXCEPT !.thresh = "50", !.radii = <<"60", "50", "40", "30">>]),
   Line([BaseLine EXCEPT !.thresh = "64", !.radii = <<"25", "20", "15", "10">>]),
   Line([BaseLine EXCEPT !.thresh = "50", !.radii = <<"30", "30", "0", "0">>]),
   Line([BaseLine EXCEPT !.thresh = "0", !.radii = <<"0", "0", "0", "0">>]),
   Line([BaseLine EXCEPT !.thresh = "34", !.radii = <<"-99", "60", "40", "40">>]),
   Line([BaseLine EXCEPT !.thresh = "0", !.pmin = "x"]),
   Short(Line([BaseLine EXCEPT !.thresh = "0"]), 9),
   Short(Line([BaseLine EXCEPT !.thresh = "0"]), 12),
   Short(Line([BaseLine EXCEPT !.thresh = "0", !.poci = "0"]), 20)}
  \cup {OptionalLine(k) : k \in 0..5}

\* The lines of the deck files: three lines of one record (thresholds 34, 50
\* and 64 of storm 01, model GFS, init 2020010100, forecast hour 0), the next
\* forecast hour, the next init / observation time, and malformed lines.
DeckLines ==
  {Line(BaseLine),
   Line([BaseLine EXCEPT !.thresh = "50", !.radii = <<"30", "30", "0", "0">>]),
   Line([BaseLine EXCEPT !.thresh = "64", !.radii = <<"20", "15", "10", "5">>]),
   Line([BaseLine EXCEPT !.fhour = "6", !.lat = "100S"]),
   Line([BaseLine EXCEPT !.time = "2020010106", !.name = "BETA"]),
   Line([BaseLine EXCEPT !.time = "2020010106", !.fhour = "6",
                         !.radii = <<"-99", "60", "40", "40">>]),
   Short(Line([BaseLine EXCEPT !.time = "2020010106"]), 6),
   Line([BaseLine EXCEPT !.time = "2020010112", !.basin = "XX"]),
   Line([BaseLine EXCEPT !.time = "2020010112", !.fhour = "6", !.number = "ab"]),
   Line([BaseLine EXCEPT !.time = "BAD"]),
   Line([BaseLine EXCEPT !.fhour = "x"]),
   Short(Line(BaseLine), 2)}

\* The lines of the A-decks with several storms, models and init times.
RunLines ==
  {Line([BaseLine EXCEPT !.number = n, !.model = m, !.time = t]) :
     n \in {"01", "02"}, m \in {"GFS", "HWRF"}, t \in {"2020010100", "2020010106"}}

\* The arguments of get_forecast: None, or a value.
StormIDs == {<< >>, <<"01L">>, <<"02L">>}

ModelNames == {<< >>, <<"GFS">>, <<"HWRF">>}

Inits == {<< >>, <<"datetime", strptime("2020010100")>>, <<"str", "2020010106">>}

-----------------------------------------------------------------------------
(* State *)

NoObject == [kind |-> "none"]

Init ==
  /\ lines = << >>
  /\ pc = "reading"
  /\ adeck = NoObject
  /\ bdeck = NoObject
  /\ request = NoObject
  /\ forecast = NoObject
  /\ storm = NoObject
  /\ entry = NoObject
  /\ objects = << >>

\* One more line of the source.
ReadLine(line) ==
  /\ pc = "reading"
  /\ Len(lines) < MaxLines
  /\ lines' = Append(lines, line)
  /\ UNCHANGED <<pc, adeck, bdeck, request, forecast, storm, entry, objects>>

\* ADeckEntry(lines): the decoder applied to the lines read, as one group.
ADeckEntryInit ==
  /\ pc = "reading"
  /\ lines # << >>
  /\ entry' = IF ADeckEntryRaises(lines)
              THEN [kind |-> "ADeckEntry", raised |-> TRUE]
              ELSE [kind |-> "ADeckEntry", raised |-> FALSE, attrs |-> ADeckEntry(lines)]
  /\ pc' = "entry"
  /\ UNCHANGED <<lines, adeck, bdeck, request, forecast, storm, objects>>

\* BDeckEntry(lines)
BDeckEntryInit ==
  /\ pc = "reading"
  /\ lines # << >>
  /\ entry' = IF BDeckEntryRaises(lines)
              THEN [kind |-> "BDeckEntry", raised |-> TRUE]
              ELSE [kind |-> "BDeckEntry", raised |-> FALSE, attrs |-> BDeckEntry(lines)]
  /\ pc' = "entry"
  /\ UNCHANGED <<lines, adeck, bdeck, request, forecast, storm, objects>>

NextEntry ==
  \/ \E line \in EntryLines : ReadLine(line)
  \/ ADeckEntryInit
  \/ BDeckEntryInit

\* The entry decoders applied to every group of at most MaxLines lines.
SpecEntry == Init /\ [][NextEntry]_vars

-----------------------------------------------------------------------------
(* Properties of the entry decoders (SpecEntry) *)

\* The lines read are one line for each of the thresholds 34, 50 and 64, in
\* any order, every quadrant field a non-zero number.
ThreeThresholdGroup ==
  /\ Len(lines) = 3
  /\ \A i \in 1..3 : Len(lines[i]) >= 17
  /\ {lines[i][12] : i \in 1..3} = {"34", "50", "64"}
  /\ \A i \in 1..3 : \A k \in 14..17 : IsInt(lines[i][k]) /\ int(lines[i][k]) # 0

\* C4: for a group of three lines with thresholds 34, 50 and 64 and non-zero
\* quadrant values, ADeckEntry and BDeckEntry produce an entry in which each of
\* the twelve attributes R<threshold>_<quadrant> is the quadrant field (fields
\* 13..16 for NE, SE, SW, NW) of the line with that threshold.
C4_MergeCorrect ==
  (entry.kind # "none" /\ ThreeThresholdGroup) =>
     /\ ~entry.raised
     /\ \A i \in 1..3 : \A q \in 1..4 :
          entry.attrs["R" \o lines[i][12] \o "_" \o quads[q]] = int(lines[i][13 + q])

\* C4 witness: a B-deck entry decoded from the lines 64, 34, 50 (not in
\* threshold order) holding the values of the three lines.
C4_Witness ==
  /\ entry.kind = "BDeckEntry"
  /\ ThreeThresholdGroup
  /\ lines[1][12] = "64" /\ lines[2][12] = "34"
  /\ ~entry.raised
  /\ entry.attrs.R34_NE = 120 /\ entry.attrs.R50_SW = 40 /\ entry.attrs.R64_NW = 10

\* 0-based field index of each optional positive-definite attribute.
OptionalAttrs(kind) ==
  IF kind = "ADeckEntry"
  THEN {<<"pmin", 9>>, <<"poci", 17>>, <<"roci", 18>>, <<"rmw", 19>>}
  ELSE {<<"pmin", 9>>, <<"poci", 17>>, <<"roci", 18>>, <<"rmw", 19>>,
        <<"maxgust", 20>>, <<"eye_diameter", 21>>}

\* The field is absent (line too short) or its text is "", "-99", "-999" or "0".
ReadsAsMissing(fields, i) ==
  \/ Len(fields) <= i
  \/ fields[i + 1] \in {"", "-99", "-999", "0"}

\* C6: an optional positive-definite field that is absent, or whose text is
\* "", "-99", "-999" or "0", decodes to the missing marker and makes no error;
\* any other numeric text decodes to its integer value.  (Every line of
\* EntryLines with at least 12 fields is well formed outside its optional
\* fields, so the decoder raises there only because of an optional field.)
C6_MissingValuePolicy ==
  entry.kind # "none" =>
    /\ ( /\ \A i \in 1..Len(lines) : Len(lines[i]) >= 12
         /\ \A a \in OptionalAttrs(entry.kind) :
              ReadsAsMissing(lines[1], a[2]) \/ IsInt(lines[1][a[2] + 1]) )
       => ~entry.raised
    /\ ~entry.raised =>
         \A a \in OptionalAttrs(entry.kind) :
           IF ReadsAsMissing(lines[1], a[2])
           THEN entry.attrs[a[1]] = nan
           ELSE entry.attrs[a[1]] = int(lines[1][a[2] + 1])

\* C6 witness: a B-deck entry whose first line has the texts "1005", "",
\* "-99", "-999", "0" in pmin, poci, roci, rmw, maxgust.
C6_Witness ==
  /\ entry.kind = "BDeckEntry"
  /\ ~entry.raised
  /\ lines[1] = OptionalLine(0)
  /\ entry.attrs.pmin = 1005
  /\ entry.attrs.poci = nan /\ entry.attrs.roci = nan /\ entry.attrs.rmw = nan
  /\ entry.attrs.maxgust = nan

\* The lines of the groups whose wind radii are merged: the lines of
\* EntryLines that differ in threshold or radii, and a line cut after its
\* threshold.
MergeLines ==
  {Line([BaseLine EXCEPT !.thresh = "34", !.radii = <<"120", "110", "100", "90">>]),
   Line([BaseLine EXCEPT !.thresh = "50", !.radii = <<"60", "50", "40", "30">>]),
   Line([BaseLine EXCEPT !.thresh = "64", !.radii = <<"25", "20", "15", "10">>]),
   Line([BaseLine EXCEPT !.thresh = "50", !.radii = <<"30", "30", "0", "0">>]),
   Line([BaseLine EXCEPT !.thresh = "0", !.radii = <<"0", "0", "0", "0">>]),
   Line([BaseLine EXCEPT !.thresh = "34", !.radii = <<"-99", "60", "40", "40">>]),
   Short(Line([BaseLine EXCEPT !.thresh = "34"]), 12)}

NextMerge ==
  \/ \E line \in MergeLines : ReadLine(line)
  \/ ADeckEntryInit
  \/ BDeckEntryInit

\* The entry decoders applied to groups of lines with wind radii.
SpecMerge == Init /\ [][NextMerge]_vars

\* The twelve radius attributes the decoder of the entry's class gives a group.
MergedRadii(group) ==
  MissingRadii(SetWindRadii(group,
    IF entry.kind = "ADeckEntry" THEN ADeck_attr_indices ELSE BDeck_attr_indices,
    << >>))

\* The lines read, in every order.
Permuted ==
  {[i \in 1..Len(lines) |-> lines[p[i]]] :
     p \in {q \in [1..Len(lines) -> 1..Len(lines)] :
              \A i \in 1..Len(lines) : \E j \in 1..Len(lines) : q[j] = i}}

\* The lines read, with one of them once more at the end.
Repeated == {Append(lines, lines[i]) : i \in 1..Len(lines)}

\* Two lines with the same non-zero threshold are the same line.
OneLinePerThreshold ==
  \A i \in 1..Len(lines) : \A j \in 1..Len(lines) :
    (lines[i][12] = lines[j][12] /\ int(lines[i][12]) # 0) => lines[i] = lines[j]

\* C15 as stated: for any group, the twelve radius attributes of the entry
\* are those of the group in any other order and of the group with a line
\* repeated.
C15_MergeOrderIndependent ==
  (entry.kind # "none" /\ ~entry.raised) =>
     \A group \in Permuted \cup Repeated :
       \A attr \in radii_attrs : entry.attrs[attr] = MergedRadii(group)[attr]

\* C15 amended: the same, for a group in which the lines with a non-zero
\* threshold have pairwise distinct thresholds or are the same line.
C15_MergeOrderIndependent_DistinctThresholds ==
  (entry.kind # "none" /\ ~entry.raised /\ OneLinePerThreshold) =>
     \A group \in Permuted \cup Repeated :
       \A attr \in radii_attrs : entry.attrs[attr] = MergedRadii(group)[attr]

\* C15 witness: a B-deck entry of the lines 50, 34, 64 with a zero radius in
\* the threshold-50 line, which the five other orders of the lines give as
\* well.
C15_Witness ==
  /\ entry.kind = "BDeckEntry" /\ ~entry.raised
  /\ Len(lines) = 3
  /\ OneLinePerThreshold
  /\ lines[1][12] = "50" /\ lines[2][12] = "34" /\ lines[3][12] = "64"
  /\ entry.attrs.R50_NE = 30 /\ entry.attrs.R50_SW = nan
  /\ entry.attrs.R34_NE = 120 /\ entry.attrs.R64_NW = 10
  /\ Cardinality(Permuted) = 6
  /\ \A group \in Permuted : MergedRadii(group) = MergedRadii(lines)

-----------------------------------------------------------------------------
(* Deck construction and aggregates *)

\* ADeck(filename): the whole constructor.  The set of run keys is iterated
\* in an order the build chooses.
ADeckInit ==
  /\ pc = "reading"
  /\ IF \E i \in 1..Len(lines) : ADeckTagRaises(lines[i])
     THEN adeck' = [kind |-> "ADeck", raised |-> TRUE]
     ELSE \E order \in Orders(RunKeys(TagLines(lines, << >>))) :
            adeck' = ADeck(lines, order)
  /\ pc' = "adeck"
  /\ UNCHANGED <<lines, bdeck, request, forecast, storm, entry, objects>>

\* BDeck(filename): the whole constructor.
BDeckInit ==
  /\ pc = "reading"
  /\ bdeck' = IF BDeckRaises(lines) THEN [kind |-> "BDeck", raised |-> TRUE]
              ELSE BDeck(lines)
  /\ pc' = "bdeck"
  /\ UNCHANGED <<lines, adeck, request, forecast, storm, entry, objects>>

\* adeck.get_forecast(stormID, modelname, init), on a loaded deck.  The call
\* reads the deck only and changes nothing of it, so one call per deck shows
\* every result.
get_forecast(stormID, modelname, init) ==
  /\ pc = "adeck"
  /\ ~adeck.raised
  /\ forecast = NoObject
  /\ request' = [kind |-> "get_forecast", stormID |-> stormID,
                 modelname |-> modelname, init |-> init]
  /\ forecast' = ModelForecast(adeck, stormID, modelname, init)
  /\ UNCHANGED <<lines, pc, adeck, bdeck, storm, entry, objects>>

\* bdeck.as_storm()
as_storm ==
  /\ pc = "bdeck"
  /\ ~bdeck.raised
  /\ storm = NoObject
  /\ storm' = Storm(bdeck)
  /\ UNCHANGED <<lines, pc, adeck, bdeck, request, forecast, entry, objects>>

Next ==
  \/ \E line \in DeckLines : ReadLine(line)
  \/ ADeckInit
  \/ BDeckInit
  \/ \E init \in Inits : get_forecast(<< >>, << >>, init)
  \/ as_storm

\* Loading a deck file of at most MaxLines lines and building its aggregates.
Spec == Init /\ [][Next]_vars

NextSelect ==
  \/ \E line \in RunLines : ReadLine(line)
  \/ ADeckInit
  \/ \E stormID \in StormIDs, modelname \in ModelNames, init \in Inits :
       get_forecast(stormID, modelname, init)

\* Selecting a forecast from an A-deck with several storms, models and inits.
SpecSelect == Init /\ [][NextSelect]_vars

\* The lines of the tracks decoded by the four coordinate decoders: north and
\* south latitudes; longitudes west and east of the prime meridian, on it,
\* and on both sides of the dateline; a longitude without a letter.
TrackLines ==
  {Line(BaseLine),
   Line([BaseLine EXCEPT !.fhour = "6", !.lat = "100S"]),
   Line([BaseLine EXCEPT !.fhour = "6", !.lon = "1200E"]),
   Line([BaseLine EXCEPT !.lon = "50W"]),
   Line([BaseLine EXCEPT !.fhour = "6", !.lon = "50E"]),
   Line([BaseLine EXCEPT !.fhour = "12", !.lon = "0E"]),
   Line([BaseLine EXCEPT !.lon = "1750E"]),
   Line([BaseLine EXCEPT !.fhour = "6", !.lon = "1750W"]),
   Line([BaseLine EXCEPT !.fhour = "12", !.lon = "251"])}

\* BestTrackObservation(lines): the decoder of storm.py applied to the lines
\* read, as one group.
BestTrackObservationInit ==
  /\ pc = "reading"
  /\ lines # << >>
  /\ entry' = IF BestTrackObservationRaises(lines)
              THEN [kind |-> "BestTrackObservation", raised |-> TRUE]
              ELSE [kind |-> "BestTrackObservation", raised |-> FALSE,
                    attrs |-> BestTrackObservation(lines)]
  /\ pc' = "entry"
  /\ UNCHANGED <<lines, adeck, bdeck, request, forecast, storm, objects>>

\* ModelForecast(data) of storm.py on the lines read.
storm_ModelForecastInit ==
  /\ pc = "reading"
  /\ forecast' = IF storm_ModelForecastRaises(lines)
                 THEN Raised("storm.ModelForecast", "exception")
                 ELSE storm_ModelForecast(lines)
  /\ pc' = "forecast"
  /\ UNCHANGED <<lines, adeck, bdeck, request, storm, entry, objects>>

NextTrack ==
  \/ \E line \in TrackLines : ReadLine(line)
  \/ ADeckEntryInit
  \/ BDeckEntryInit
  \/ BestTrackObservationInit
  \/ storm_ModelForecastInit

\* The four decoders of coordinates applied to tracks of at most MaxLines
\* lines.
SpecTrack == Init /\ [][NextTrack]_vars

\* The lines of the decks whose index is read: forecast hours 0 and 6 of the
\* run (01, GFS, 2020010100), the same record with the storm number written
\* "1", a run of the model HWRF, and a record of the next init / observation
\* time whose latitude has no hemisphere letter.
IndexLines ==
  {Line(BaseLine),
   Line([BaseLine EXCEPT !.fhour = "6", !.lat = "100S"]),
   Line([BaseLine EXCEPT !.number = "1", !.vmax = "40"]),
   Line([BaseLine EXCEPT !.model = "HWRF", !.time = "2020010106"]),
   Line([BaseLine EXCEPT !.time = "2020010112", !.lat = "251"])}

\* adeck.get_all_forecasts(), on a loaded deck; the result is the list of
\* forecasts, or the error raised.
get_all_forecasts ==
  /\ pc = "adeck"
  /\ ~adeck.raised
  /\ forecast = NoObject
  /\ forecast' = AllForecasts(adeck)
  /\ UNCHANGED <<lines, pc, adeck, bdeck, request, storm, entry, objects>>

NextIndex ==
  \/ \E line \in IndexLines : ReadLine(line)
  \/ ADeckInit
  \/ BDeckInit
  \/ get_all_forecasts
  \/ as_storm

\* Loading a deck and building every aggregate of it.
SpecIndex == Init /\ [][NextIndex]_vars

\* Largest number of aggregates a program keeps.
MaxObjects == 2

\* The lines of a best track file that grows: observations of storm 01 ALPHA
\* at 00Z and 06Z of 1 January and at 00Z of 1 March, the 06Z observation
\* of a disturbance labelled INVEST, and a line cut after field 11.
EqLines ==
  {Line(BaseLine),
   Line([BaseLine EXCEPT !.time = "2020010106"]),
   Line([BaseLine EXCEPT !.time = "2020030100"]),
   Line([BaseLine EXCEPT !.time = "2020010106", !.cls = "DB", !.name = "INVEST"]),
   Short(Line(BaseLine), 12)}

\* Storm(data) of storm.py on the lines read so far; the storm is kept, and
\* the file may grow before the next one is built.
storm_StormInit ==
  /\ pc = "reading"
  /\ Len(objects) < MaxObjects
  /\ objects' = Append(objects, IF storm_StormRaises(lines)
                                THEN Raised("storm.Storm", "exception")
                                ELSE storm_Storm(lines))
  /\ UNCHANGED <<lines, pc, adeck, bdeck, request, forecast, storm, entry>>

\* adeck.get_forecast(init=init), the forecast kept with those of the
\* calls before.
keep_forecast(init) ==
  /\ pc = "adeck"
  /\ ~adeck.raised
  /\ Len(objects) < MaxObjects
  /\ objects' = Append(objects, ModelForecast(adeck, << >>, << >>, init))
  /\ UNCHANGED <<lines, pc, adeck, bdeck, request, forecast, storm, entry>>

\* bdeck.as_storm(), the storm kept with those of the calls before.
keep_storm ==
  /\ pc = "bdeck"
  /\ ~bdeck.raised
  /\ Len(objects) < MaxObjects
  /\ objects' = Append(objects, Storm(bdeck))
  /\ UNCHANGED <<lines, pc, adeck, bdeck, request, forecast, storm, entry>>

NextEq ==
  \/ \E line \in EqLines : ReadLine(line)
  \/ storm_StormInit
  \/ ADeckInit
  \/ BDeckInit
  \/ \E init \in Inits : keep_forecast(init)
  \/ keep_storm

\* Building several aggregates from one source and comparing them.
SpecEq == Init /\ [][NextEq]_vars

-----------------------------------------------------------------------------
(* Properties of deck construction (Spec) *)

ADeckLoaded == adeck.kind = "ADeck" /\ ~adeck.raised

BDeckLoaded == bdeck.kind = "BDeck" /\ ~bdeck.raised

\* Line i of a loaded A-deck is in the group of its own key: the group of its
\* forecast hour in the run of its storm number, model name and init time.
InItsGroup(i) ==
  \E r \in 1..Len(adeck.line_timegroups) :
    /\ adeck.line_timegroups[r][1] = <<lines[i][2], lines[i][5], strptime(lines[i][3])>>
    /\ \E g \in 1..Len(adeck.line_timegroups[r][2]) :
         /\ adeck.line_timegroups[r][2][g][1] = int(lines[i][6])
         /\ \E k \in 1..Len(adeck.line_timegroups[r][2][g][2]) :
              adeck.line_timegroups[r][2][g][2][k] = lines[i]

\* C1: when an A-deck is loaded, every line of the source is in the group of
\* its own key (storm number, model name, init time, forecast hour); no line is
\* dropped or replaced by a later line with the same key.
C1_EveryLineInItsGroup ==
  ADeckLoaded => \A i \in 1..Len(lines) : InItsGroup(i)

\* C2: constructing an ADeck or a BDeck never aborts, whatever the lines.
C2_LoadNeverAborts ==
  /\ adeck.kind = "ADeck" => ~adeck.raised
  /\ bdeck.kind = "BDeck" => ~bdeck.raised

\* The j-th smallest element of a set of numbers.
Nth(S, j) == CHOOSE k \in S : Cardinality({m \in S : m <= k}) = j

\* The groups of the loaded A-deck, in decoding order.
LoadedADeckGroups == ADeckGroups(adeck.line_timegroups)

\* The groups of the loaded B-deck, in decoding order.
LoadedBDeckGroups == DictValues(bdeck.line_timegroups)

\* C3: when a deck load completes, the entry list holds exactly one entry for
\* every group whose decoding succeeds, in the order of the groups, and none
\* for a group whose decoding fails.
C3_FailuresIsolated ==
  /\ ADeckLoaded =>
       LET good == {i \in 1..Len(LoadedADeckGroups) :
                      ~ADeckEntryRaises(LoadedADeckGroups[i])}
       IN  /\ Len(adeck.entries) = Cardinality(good)
           /\ \A j \in 1..Len(adeck.entries) :
                adeck.entries[j] = ADeckEntry(LoadedADeckGroups[Nth(good, j)])
  /\ BDeckLoaded =>
       LET good == {i \in 1..Len(LoadedBDeckGroups) :
                      ~BDeckEntryRaises(LoadedBDeckGroups[i])}
       IN  /\ Len(bdeck.entries) = Cardinality(good)
           /\ \A j \in 1..Len(bdeck.entries) :
                bdeck.entries[j] = BDeckEntry(LoadedBDeckGroups[Nth(good, j)])

\* C3 witness: a loaded A-deck of three groups in which the first group fails
\* to decode and the two groups after it have their entries.
C3_Witness ==
  /\ ADeckLoaded
  /\ Len(LoadedADeckGroups) = 3
  /\ ADeckEntryRaises(LoadedADeckGroups[1])
  /\ Len(adeck.entries) = 2
  /\ adeck.entries[1].fhour # adeck.entries[2].fhour

\* The twelve quadrant-radius attributes.
TwelveRadii ==
  {"R34_NE", "R34_SE", "R34_SW", "R34_NW", "R50_NE", "R50_SE", "R50_SW", "R50_NW",
   "R64_NE", "R64_SE", "R64_SW", "R64_NW"}

\* C5: in every entry of a loaded deck, each of the twelve quadrant-radius
\* attributes is the missing marker or a non-negative number, and never zero.
C5_RadiiNonNegativeOrMissing ==
  /\ ADeckLoaded =>
       \A j \in 1..Len(adeck.entries) : \A attr \in TwelveRadii :
         adeck.entries[j][attr] = nan \/ adeck.entries[j][attr] > 0
  /\ BDeckLoaded =>
       \A j \in 1..Len(bdeck.entries) : \A attr \in TwelveRadii :
         bdeck.entries[j][attr] = nan \/ bdeck.entries[j][attr] > 0

NonDecreasing(array) == \A i \in 1..Len(array) - 1 : array[i] <= array[i + 1]

\* C10: the arrays of every aggregate are in chronological order: the time
\* array of a Storm, and the fhour and validtime arrays of a ModelForecast,
\* are non-decreasing.
C10_Chronological ==
  /\ (storm.kind = "Storm" /\ storm.raised = "") => NonDecreasing(storm.time)
  /\ (forecast.kind = "ModelForecast" /\ forecast.raised = "") =>
       NonDecreasing(forecast.fhour) /\ NonDecreasing(forecast.validtime)

\* The entries of the loaded A-deck that belong to the run of the forecast.
SelectedRun ==
  SelectSeq(adeck.entries,
    LAMBDA e : /\ e.stormID = forecast.stormID
               /\ e.modelname = forecast.modelname
               /\ e.init = forecast.init)

\* C11: every array of an aggregate has one element for each entry it was
\* built from (all entries of the B-deck for a Storm, the entries of the
\* selected run for a ModelForecast), and element i of every array is the
\* attribute value of the i-th of these entries.
C11_ParallelArrays ==
  /\ (storm.kind = "Storm" /\ storm.raised = "") =>
       \A attr \in Storm_dtypes :
         /\ Len(storm[attr]) = Len(bdeck.entries)
         /\ \A i \in 1..Len(bdeck.entries) : storm[attr][i] = bdeck.entries[i][attr]
  /\ (forecast.kind = "ModelForecast" /\ forecast.raised = "") =>
       \A attr \in ModelForecast_dtypes :
         /\ Len(forecast[attr]) = Len(SelectedRun)
         /\ \A i \in 1..Len(SelectedRun) : forecast[attr][i] = SelectedRun[i][attr]

\* C11 witness: a forecast of two entries, forecast hours 0 and 6 of one run, at
\* 25.1N and 10.0S.
C11_Witness ==
  /\ forecast.kind = "ModelForecast" /\ forecast.raised = ""
  /\ Len(SelectedRun) = 2
  /\ forecast.fhour = <<0, 6>>
  /\ forecast.lat = <<251, -100>>
  /\ forecast.basin = <<"AL", "AL">>

\* The entries of a loaded B-deck with the greatest observation time.
NewestEntries ==
  {i \in 1..Len(bdeck.entries) :
     \A j \in 1..Len(bdeck.entries) : bdeck.entries[j].time <= bdeck.entries[i].time}

\* The entries of the loaded A-deck that have the init time asked for.
EntriesOfInit ==
  SelectSeq(adeck.entries,
    LAMBDA e : request.init = << >> \/ e.init = ParseInit(request.init)[1])

\* C12: the identity of an aggregate is that of the newest entry it was built
\* from: ID and name of a Storm are stormID and stormname of the B-deck entry
\* with the greatest observation time; stormID, modelname and init of a
\* ModelForecast are those of the last of its entries.
C12_IdentityOfLatest ==
  /\ (storm.kind = "Storm" /\ storm.raised = "") =>
       \A i \in NewestEntries :
         /\ storm.ID = bdeck.entries[i].stormID
         /\ storm.name = bdeck.entries[i].stormname
  /\ (forecast.kind = "ModelForecast" /\ forecast.raised = "") =>
       LET last == EntriesOfInit[Len(EntriesOfInit)]
       IN  /\ forecast.stormID = last.stormID
           /\ forecast.modelname = last.modelname
           /\ forecast.init = last.init

-----------------------------------------------------------------------------
(* Properties of the keys and of the index (SpecIndex) *)

\* The keys (stormnum, modelname, init, fhour) of the groups of
\* line_timegroups, in the order of ADeckGroups.
RECURSIVE ADeckGroupKeys(_)
ADeckGroupKeys(line_timegroups) ==
  IF line_timegroups = << >> THEN << >>
  ELSE LET run == Head(line_timegroups)[1]
           timegroups == Head(line_timegroups)[2]
       IN  [g \in 1..Len(timegroups) |-> <<run[1], run[2], run[3], timegroups[g][1]>>]
           \o ADeckGroupKeys(Tail(line_timegroups))

\* The key of an A-deck entry: storm number, model name, init time and
\* forecast hour.
ADeckEntryKey(e) == <<e.number, e.modelname, e.init, e.fhour>>

\* A group key with its storm number read as a number.
ParsedKey(key) == <<int(key[1]), key[2], key[3], key[4]>>

\* The places, among the groups, of the groups that decode.
DecodedADeckGroups ==
  {i \in 1..Len(LoadedADeckGroups) : ~ADeckEntryRaises(LoadedADeckGroups[i])}

DecodedBDeckGroups ==
  {i \in 1..Len(LoadedBDeckGroups) : ~BDeckEntryRaises(LoadedBDeckGroups[i])}

\* C14: the key derived from an entry (storm number, model name, init time and
\* forecast hour of an A-deck entry; observation time of a B-deck entry) is the
\* key of the group the entry was decoded from, its texts read as values, and
\* the entries of two distinct groups have distinct keys.
C14_KeyRoundTrip ==
  /\ ADeckLoaded =>
       /\ \A j \in 1..Len(adeck.entries) :
            ADeckEntryKey(adeck.entries[j])
              = ParsedKey(ADeckGroupKeys(adeck.line_timegroups)[Nth(DecodedADeckGroups, j)])
       /\ \A j \in 1..Len(adeck.entries) : \A k \in 1..Len(adeck.entries) :
            j # k => ADeckEntryKey(adeck.entries[j]) # ADeckEntryKey(adeck.entries[k])
  /\ BDeckLoaded =>
       /\ \A j \in 1..Len(bdeck.entries) :
            bdeck.entries[j].time
              = strptime(bdeck.line_timegroups[Nth(DecodedBDeckGroups, j)][1])
       /\ \A j \in 1..Len(bdeck.entries) : \A k \in 1..Len(bdeck.entries) :
            j # k => bdeck.entries[j].time # bdeck.entries[k].time

\* C16: get_all_forecasts succeeds on every loaded A-deck and returns one
\* ModelForecast for each key (storm ID, model name, init time) of
\* entries_by_modelrun, whose identity is the key and whose arrays hold the
\* attribute values of the entries listed under the key, in their order.
C16_OneForecastPerRun ==
  forecast.kind = "get_all_forecasts" =>
    /\ forecast.raised = ""
    /\ Len(forecast.forecasts) = Len(adeck.entries_by_modelrun)
    /\ \A i \in 1..Len(adeck.entries_by_modelrun) :
         LET key == adeck.entries_by_modelrun[i][1]
             run == adeck.entries_by_modelrun[i][2]
             f == forecast.forecasts[i]
         IN  /\ <<f.stormID, f.modelname, f.init>> = key
             /\ \A attr \in ModelForecast_dtypes :
                  /\ Len(f[attr]) = Len(run)
                  /\ \A k \in 1..Len(run) : f[attr][k] = run[k][attr]
             /\ \A j \in 1..Len(adeck.entries_by_modelrun) :
                  adeck.entries_by_modelrun[j][1] = key => j = i

\* An entry has every attribute the aggregate of its deck reads.
Complete(e, dtypes) == \A attr \in dtypes : attr \in DOMAIN e

\* C19: every entry of a loaded deck has a latitude, a longitude and every
\* other attribute the aggregates read, and neither as_storm nor
\* get_all_forecasts fails on a missing attribute of an entry.
C19_EntriesComplete ==
  /\ ADeckLoaded =>
       \A j \in 1..Len(adeck.entries) : Complete(adeck.entries[j], ModelForecast_dtypes)
  /\ BDeckLoaded =>
       \A j \in 1..Len(bdeck.entries) : Complete(bdeck.entries[j], Storm_dtypes)
  /\ storm.kind = "Storm" => storm.raised # "AttributeError"
  /\ forecast.kind = "get_all_forecasts" => forecast.raised # "AttributeError"

-----------------------------------------------------------------------------
(* Properties of the coordinate decoders (SpecTrack) *)

\* The magnitude of a coordinate text, in tenths of a degree, signed by its
\* hemisphere letter: + for N and E, - for S and W.
Signed(text) ==
  IF CoordLiterals[text][2] \in {"N", "E"} THEN FloatLiterals[CoordLiterals[text][1]]
  ELSE 0 - FloatLiterals[CoordLiterals[text][1]]

HasLetter(text, letters) == CoordLiterals[text][2] \in letters

\* C17: every decoder gives a latitude of magnitude m with letter N the value
\* +m/10 and with letter S the value -m/10, for every line of the input
\* (ADeckEntry, BDeckEntry and BestTrackObservation decode the first line of
\* a group, the ModelForecast of storm.py every line); ADeckEntry and
\* BDeckEntry give a longitude with letter E the value +m/10 and with letter
\* W the value -m/10.
C17_SignedCoordinates ==
  /\ (entry.kind # "none" /\ HasLetter(lines[1][7], {"N", "S"})) =>
       ~entry.raised /\ entry.attrs.lat = Signed(lines[1][7])
  /\ (entry.kind \in {"ADeckEntry", "BDeckEntry"} /\ HasLetter(lines[1][8], {"E", "W"})) =>
       ~entry.raised /\ entry.attrs.lon = Signed(lines[1][8])
  /\ ( /\ forecast.kind = "storm.ModelForecast"
       /\ lines # << >>
       /\ \A i \in 1..Len(lines) :
            HasLetter(lines[i][7], {"N", "S"}) /\ HasLetter(lines[i][8], {"E", "W"}) ) =>
       /\ forecast.raised = ""
       /\ \A i \in 1..Len(lines) : forecast.lat[i] = Signed(lines[i][7])

\* C18: every longitude of a ModelForecast of storm.py lies in [0, 360]
\* (every longitude of TrackLines has a magnitude of at most 180 degrees).
C18_LonNormalized ==
  (forecast.kind = "storm.ModelForecast" /\ forecast.raised = "") =>
     \A i \in 1..Len(forecast.lon) : forecast.lon[i] >= 0 /\ forecast.lon[i] <= 3600

-----------------------------------------------------------------------------
(* Properties of equality and hash (SpecEq) *)

\* Two aggregates of one class, both constructed without error.
Comparable(a, b) ==
  /\ objects[a].kind = objects[b].kind
  /\ objects[a].raised = "" /\ objects[b].raised = ""

\* The identity attributes: storm ID, model name and init time of a forecast;
\* storm ID and storm name of a storm.
Identity(o) ==
  IF o.kind = "ModelForecast" THEN <<o.stormID, o.modelname, o.init>>
  ELSE <<o.ID, o.name>>

\* objects[a] == objects[b]
Equal(a, b) ==
  IF objects[a].kind = "storm.Storm" THEN storm_Storm_eq(objects[a], objects[b])
  ELSE object_eq(a, b)

\* hash(o)
Hash(o) ==
  IF o.kind = "ModelForecast" THEN ModelForecast_hash(o)
  ELSE IF o.kind = "Storm" THEN Storm_hash(o)
  ELSE storm_Storm_hash(o)

\* C13: two aggregates with equal identity attributes compare equal and have
\* equal hashes, and two aggregates that compare equal have equal hashes.
C13_EqualityByIdentity ==
  \A a \in 1..Len(objects) : \A b \in 1..Len(objects) :
    Comparable(a, b) =>
      /\ Identity(objects[a]) = Identity(objects[b]) =>
           Equal(a, b) /\ Hash(objects[a]) = Hash(objects[b])
      /\ Equal(a, b) => Hash(objects[a]) = Hash(objects[b])

-----------------------------------------------------------------------------
(* Properties of get_forecast (SpecSelect) *)

\* The init time asked for.
RequestedInit ==
  IF request.init[1] = "str" THEN strptime(request.init[2]) ELSE request.init[2]

\* The entries of the deck that match every filter supplied.
Candidates ==
  SelectSeq(adeck.entries,
    LAMBDA e : /\ request.stormID = << >> \/ e.stormID = request.stormID[1]
               /\ request.modelname = << >> \/ e.modelname = request.modelname[1]
               /\ request.init = << >> \/ e.init = RequestedInit)

CandidateValues(attr) == {Candidates[i][attr] : i \in 1..Len(Candidates)}

CandidateRuns ==
  {<<Candidates[i].stormID, Candidates[i].modelname, Candidates[i].init>> :
     i \in 1..Len(Candidates)}

AmbiguityErrors == {"multiple storms", "multiple models", "multiple model runs"}

\* C7: whenever a filter is omitted and the candidate entries span more than
\* one value of that dimension, get_forecast fails with an ambiguity error and
\* returns no forecast; a forecast that is returned is the only candidate run.
C7_NoSilentPick ==
  forecast.kind = "ModelForecast" =>
    /\ ( \/ request.stormID = << >> /\ Cardinality(CandidateValues("stormID")) > 1
         \/ request.modelname = << >> /\ Cardinality(CandidateValues("modelname")) > 1
         \/ request.init = << >> /\ Cardinality(CandidateValues("init")) > 1 )
       => forecast.raised \in AmbiguityErrors
    /\ forecast.raised = "" =>
         CandidateRuns = {<<forecast.stormID, forecast.modelname, forecast.init>>}

\* C7 witness: storm 01L is asked for, that storm has two models, and the
\* call fails with the model ambiguity.
C7_Witness ==
  /\ forecast.kind = "ModelForecast"
  /\ request.stormID = <<"01L">> /\ request.modelname = << >>
  /\ Cardinality(CandidateValues("modelname")) = 2
  /\ forecast.raised = "multiple models"

\* C8: if the entries matching every supplied filter belong to exactly one
\* (storm ID, model name, init time) run, get_forecast succeeds and builds
\* that run's forecast.
C8_UniqueRunSucceeds ==
  (forecast.kind = "ModelForecast" /\ Cardinality(CandidateRuns) = 1) =>
     /\ forecast.raised = ""
     /\ CandidateRuns = {<<forecast.stormID, forecast.modelname, forecast.init>>}

\* C9: when the supplied filters exclude every entry of the deck, get_forecast
\* fails with the not-found error.
C9_NotFound ==
  (forecast.kind = "ModelForecast" /\ Candidates = << >>) =>
     forecast.raised = "no entries"

====
